---- MODULE Spec2Model ----
(***************************************************************************)
(* A model of the CHIP-8 interpreter of hensg/cpu-emulator: the CPU        *)
(* aggregate of chip8/src/lib.rs with its Stack and Ram                    *)
(* (chip8/src/memory.rs) and Screen (chip8/src/screen.rs), driven through  *)
(* its public entry points load, tick, tick_timers and keypress.           *)
(*                                                                         *)
(* A Rust panic (an out-of-bounds index, unimplemented!(), a checked       *)
(* arithmetic overflow) ends the run: the variable panic records it and    *)
(* every field keeps the value it had when the panic was raised.  Integer  *)
(* overflow depends on the build: with overflow checks (debug profile) it  *)
(* panics, without them (release profile) it wraps; where the code can     *)
(* overflow, the model takes either outcome.                               *)
(***************************************************************************)
EXTENDS Integers, Sequences, FiniteSets, TLC

\* ------------------------------------------------------------------------
\* Program constants
\* ------------------------------------------------------------------------
NUM_REGS == 16
NUM_KEYS == 16
RAM_SIZE == 4096
START_ADDR == 512
STACK_SIZE == 16
SCREEN_WIDTH == 64
SCREEN_HEIGHT == 32
FONTSET_SIZE == 80

U8 == 256
U16 == 65536

\* The built-in hexadecimal digit sprites, 16 glyphs of 5 bytes.
FONTSET ==
  << 240, 144, 144, 144, 240,    32,  96,  32,  32, 112,
     240,  16, 240, 128, 240,   240,  16, 240,  16, 240,
     144, 144, 240,  16,  16,   240, 128, 240,  16, 240,
     240, 128, 240, 144, 240,   240,  16,  32,  64,  64,
     240, 144, 240, 144, 240,   240, 144, 240,  16, 240,
     240, 144, 240, 144, 144,   224, 144, 224, 144, 224,
     240, 128, 128, 128, 240,   224, 144, 144, 144, 224,
     240, 128, 240, 128, 240,   240, 128, 240, 128, 128 >>

VARIABLES
  program_counter,  \* CPU.program_counter: u16
  v_registers,      \* CPU.v_registers: [u8; 16]
  i_register,       \* CPU.i_register: u16
  stack_point,      \* Stack.stack_point: u16
  stack,            \* Stack.stack: [u16; 16]
  ram,              \* Ram.data: [u8; 4096]
  display,          \* Screen.display: [bool; 64 * 32]
  keys,             \* CPU.keys: [bool; 16]
  delay_timer,      \* CPU.delay_timer: u8
  sound_timer,      \* CPU.sound_timer: u8
  panic,            \* "none", or the panic that ended the run
  called,           \* the host's position: the entry point it called last
  instruction,      \* the local `instruction` of the last tick (-1: none yet)
  frames            \* history: the latest two Dxyn since the last 00E0, the
                    \* newest first, each with the framebuffer it started from

vars == << program_counter, v_registers, i_register, stack_point, stack, ram,
           display, keys, delay_timer, sound_timer, panic,
           called, instruction, frames >>

\* The machine state the opcodes other than control transfers work on.
regs == << v_registers, i_register >>
stk == << stack_point, stack >>
timers == << delay_timer, sound_timer >>

\* ------------------------------------------------------------------------
\* Construction
\* ------------------------------------------------------------------------
RamDefault ==
  [a \in 0..(RAM_SIZE - 1) |-> IF a < FONTSET_SIZE THEN FONTSET[a + 1] ELSE 0]

ScreenDefault == [c \in 0..(SCREEN_WIDTH * SCREEN_HEIGHT - 1) |-> FALSE]

Init ==
  /\ program_counter = START_ADDR
  /\ v_registers = [r \in 0..(NUM_REGS - 1) |-> 0]
  /\ i_register = 0
  /\ stack_point = 0
  /\ stack = [s \in 0..(STACK_SIZE - 1) |-> 0]
  /\ ram = RamDefault
  /\ display = ScreenDefault
  /\ keys = [k \in 0..(NUM_KEYS - 1) |-> FALSE]
  /\ delay_timer = 0
  /\ sound_timer = 0
  /\ panic = "none"
  /\ called = "default"
  /\ instruction = -1
  /\ frames = << >>

\* ------------------------------------------------------------------------
\* Ram
\* ------------------------------------------------------------------------
\* Ram::fetch_instruction, for an address with address + 1 inside the array.
fetch_instruction(address) == ram[address] * 256 + ram[address + 1]

\* A faulty bounds check that lets every ROM through.
RamLoadFitsAlways(data) == TRUE

\* Ram::load: the slice data[start..end] is bounds-checked before any byte is
\* copied.
RamLoadFits(data) == START_ADDR + Len(data) <= RAM_SIZE

\* A faulty copy that starts at address 0.
RamLoadFromZero(data) == [a \in 0..(Len(data) - 1) |-> data[a + 1]] @@ ram

\* copy_from_slice: data[start..end] takes the bytes of data, the rest of the
\* memory stays.
RamLoad(data) ==
  [a \in START_ADDR..(START_ADDR + Len(data) - 1) |-> data[a - START_ADDR + 1]]
    @@ ram

\* Consecutive Ram::write_byte calls at address, address + 1, ... from byte
\* k of bytes on: the writes inside the array happen, the first one outside
\* it panics.
RECURSIVE WriteFrom(_, _, _, _)
WriteFrom(mem, address, bytes, k) ==
  IF k > Len(bytes) \/ address + k - 1 >= RAM_SIZE THEN mem
  ELSE WriteFrom([mem EXCEPT ![address + k - 1] = bytes[k]], address, bytes, k + 1)

WriteBytes(address, bytes) == WriteFrom(ram, address, bytes, 1)

WritesFit(address, n) == address + n <= RAM_SIZE

\* ------------------------------------------------------------------------
\* 8-bit arithmetic
\* ------------------------------------------------------------------------
\* u8::overflowing_add and u8::overflowing_sub: << wrapped result, overflow >>.
overflowing_add(a, b) == << (a + b) % U8, a + b >= U8 >>

overflowing_sub(a, b) == << (a - b) % U8, a - b < 0 >>

\* The bitwise operators |, & and ^ on u8, bit by bit from the least
\* significant; kind is "or", "and" or "xor".
BitOf(kind, p, q) ==
  CASE kind = "or" -> IF p + q >= 1 THEN 1 ELSE 0
    [] kind = "and" -> p * q
    [] kind = "xor" -> (p + q) % 2

RECURSIVE Bitwise(_, _, _, _)
Bitwise(kind, a, b, nbits) ==
  IF nbits = 0 THEN 0
  ELSE BitOf(kind, a % 2, b % 2)
         + 2 * Bitwise(kind, a \div 2, b \div 2, nbits - 1)

\* ------------------------------------------------------------------------
\* Decode: the match of CPU::execute on the four nibbles of the opcode
\* ------------------------------------------------------------------------
Digit1(op) == op \div 4096
Digit2(op) == (op \div 256) % 16
Digit3(op) == (op \div 16) % 16
Digit4(op) == op % 16
NNN(op) == op % 4096
NN(op) == op % 256

Decode(op) ==
  LET d1 == Digit1(op)
      d2 == Digit2(op)
      d3 == Digit3(op)
      d4 == Digit4(op)
  IN CASE d1 = 0 /\ d2 = 0 /\ d3 = 0 /\ d4 = 0 -> "NOP"
       [] d1 = 0 /\ d2 = 0 /\ d3 = 14 /\ d4 = 0 -> "CLS"
       [] d1 = 0 /\ d2 = 0 /\ d3 = 14 /\ d4 = 14 -> "RET"
       [] d1 = 1 -> "JP"
       [] d1 = 2 -> "CALL"
       [] d1 = 3 -> "SE_NN"
       [] d1 = 4 -> "SNE_NN"
       [] d1 = 5 /\ d4 = 0 -> "SE_VY"
       [] d1 = 6 -> "LD_NN"
       [] d1 = 7 -> "ADD_NN"
       [] d1 = 8 /\ d4 = 0 -> "LD_VY"
       [] d1 = 8 /\ d4 = 1 -> "OR"
       [] d1 = 8 /\ d4 = 2 -> "AND"
       [] d1 = 8 /\ d4 = 3 -> "XOR"
       [] d1 = 8 /\ d4 = 4 -> "ADD_VY"
       [] d1 = 8 /\ d4 = 5 -> "SUB"
       [] d1 = 8 /\ d4 = 6 -> "SHR"
       [] d1 = 8 /\ d4 = 7 -> "SUBN"
       [] d1 = 8 /\ d4 = 14 -> "SHL"
       [] d1 = 9 /\ d4 = 0 -> "SNE_VY"
       [] d1 = 10 -> "LD_I"
       [] d1 = 11 -> "JP_V0"
       [] d1 = 12 -> "RND"
       [] d1 = 13 -> "DRW"
       [] d1 = 14 /\ d3 = 9 /\ d4 = 14 -> "SKP"
       [] d1 = 14 /\ d3 = 10 /\ d4 = 1 -> "SKNP"
       [] d1 = 15 /\ d3 = 0 /\ d4 = 7 -> "LD_VX_DT"
       [] d1 = 15 /\ d3 = 0 /\ d4 = 10 -> "LD_VX_K"
       [] d1 = 15 /\ d3 = 1 /\ d4 = 5 -> "LD_DT"
       [] d1 = 15 /\ d3 = 1 /\ d4 = 8 -> "LD_ST"
       [] d1 = 15 /\ d3 = 1 /\ d4 = 14 -> "ADD_I"
       [] d1 = 15 /\ d3 = 2 /\ d4 = 9 -> "LD_F"
       [] d1 = 15 /\ d3 = 3 /\ d4 = 3 -> "LD_B"
       [] d1 = 15 /\ d3 = 5 /\ d4 = 5 -> "LD_I_VX"
       [] d1 = 15 /\ d3 = 6 /\ d4 = 5 -> "LD_VX_I"
       [] OTHER -> "unimplemented"

\* ------------------------------------------------------------------------
\* How an instruction ends.  pc is self.program_counter as the instruction
\* leaves it (fetch has already advanced it by 2).
\* ------------------------------------------------------------------------
Continue(pc) == program_counter' = pc /\ panic' = "none"

Abort(pc, message) == program_counter' = pc /\ panic' = message

\* An instruction that only assigns V registers.
SetRegisters(pc, v) ==
  /\ v_registers' = v
  /\ Continue(pc)
  /\ UNCHANGED << i_register, stk, ram, display, keys, timers >>

\* An instruction that only decides where execution goes on.
Goto(pc) ==
  /\ Continue(pc)
  /\ UNCHANGED << regs, stk, ram, display, keys, timers >>

\* A skip: the program counter advances by 2 more when cond holds.
SkipIf(pc, cond) == Goto(IF cond THEN pc + 2 ELSE pc)

\* ------------------------------------------------------------------------
\* Stack
\* ------------------------------------------------------------------------
\* Stack::push: the indexed store is bounds-checked, and comes first.
StackPushFits == stack_point < STACK_SIZE

\* A faulty push that saves the address of the call instead of the address
\* after it.
StackPushCallSite(value) ==
  /\ stack' = [stack EXCEPT ![stack_point] = value - 2]
  /\ stack_point' = stack_point + 1

StackPush(value) ==
  /\ stack' = [stack EXCEPT ![stack_point] = value]
  /\ stack_point' = stack_point + 1

\* Stack::pop: the decrement comes first.  On an empty stack it overflows
\* u16: a panic with overflow checks, a wrap to 65535 without them, and then
\* the indexed read is out of bounds.
StackPopDecrement == (stack_point - 1) % U16

\* ------------------------------------------------------------------------
\* The opcodes of CPU::execute
\* ------------------------------------------------------------------------
\* 0000
ExecNOP(pc) == Goto(pc)

\* 00E0
ExecCLS(pc) ==
  /\ display' = ScreenDefault
  /\ Continue(pc)
  /\ UNCHANGED << regs, stk, ram, keys, timers >>

\* 00EE
ExecRET(pc) ==
  IF stack_point = 0
  THEN \E overflow_checks \in BOOLEAN :
         IF overflow_checks
         THEN /\ Abort(pc, "attempt to subtract with overflow")
              /\ UNCHANGED << regs, stk, ram, display, keys, timers >>
         ELSE /\ stack_point' = StackPopDecrement
              /\ Abort(pc, "index out of bounds")
              /\ UNCHANGED << regs, stack, ram, display, keys, timers >>
  ELSE /\ stack_point' = StackPopDecrement
       /\ Continue(stack[StackPopDecrement])
       /\ UNCHANGED << regs, stack, ram, display, keys, timers >>

\* 1nnn
ExecJP(pc, nnn) == Goto(nnn)

\* 2nnn
ExecCALL(pc, nnn) ==
  IF StackPushFits
  THEN /\ StackPush(pc)
       /\ Continue(nnn)
       /\ UNCHANGED << regs, ram, display, keys, timers >>
  ELSE /\ Abort(pc, "index out of bounds")
       /\ UNCHANGED << regs, stk, ram, display, keys, timers >>

\* 3xnn, 4xnn, 5xy0, 9xy0
ExecSE_NN(pc, x, nn) == SkipIf(pc, v_registers[x] = nn)

ExecSNE_NN(pc, x, nn) == SkipIf(pc, v_registers[x] # nn)

ExecSE_VY(pc, x, y) == SkipIf(pc, v_registers[x] = v_registers[y])

ExecSNE_VY(pc, x, y) == SkipIf(pc, v_registers[x] # v_registers[y])

\* 6xnn
ExecLD_NN(pc, x, nn) == SetRegisters(pc, [v_registers EXCEPT ![x] = nn])

\* A faulty 7xnn that reports the carry in VF, as 8xy4 does.
ExecADD_NN_Carry(pc, x, nn) ==
  SetRegisters(pc, [[v_registers EXCEPT ![x] = (v_registers[x] + nn) % U8]
                      EXCEPT ![15] = IF v_registers[x] + nn >= U8 THEN 1 ELSE 0])

\* 7xnn: u8::wrapping_add
ExecADD_NN(pc, x, nn) ==
  SetRegisters(pc, [v_registers EXCEPT ![x] = (v_registers[x] + nn) % U8])

\* 8xy0 .. 8xy3
ExecLD_VY(pc, x, y) ==
  SetRegisters(pc, [v_registers EXCEPT ![x] = v_registers[y]])

ExecBitwise(pc, kind, x, y) ==
  SetRegisters(pc, [v_registers EXCEPT
                      ![x] = Bitwise(kind, v_registers[x], v_registers[y], 8)])

\* A faulty 8xy4 that stores VF first, then Vx.
AddFlagFirst(x, y) ==
  LET r == overflowing_add(v_registers[x], v_registers[y])
  IN [[v_registers EXCEPT ![15] = IF r[2] THEN 1 ELSE 0] EXCEPT ![x] = r[1]]

\* 8xy4: Vx is stored first, then VF
AddWithCarry(x, y) ==
  LET r == overflowing_add(v_registers[x], v_registers[y])
  IN [[v_registers EXCEPT ![x] = r[1]] EXCEPT ![15] = IF r[2] THEN 1 ELSE 0]

ExecADD_VY(pc, x, y) == SetRegisters(pc, AddWithCarry(x, y))

\* 8xy5: Vx is stored first, then VF
SubWithBorrow(x, y) ==
  LET r == overflowing_sub(v_registers[x], v_registers[y])
  IN [[v_registers EXCEPT ![x] = r[1]] EXCEPT ![15] = IF r[2] THEN 0 ELSE 1]

ExecSUB(pc, x, y) == SetRegisters(pc, SubWithBorrow(x, y))

\* 8xy6: VF is stored first, then Vx is shifted
ShiftRight(x) ==
  LET flagged == [v_registers EXCEPT ![15] = v_registers[x] % 2]
  IN [flagged EXCEPT ![x] = flagged[x] \div 2]

ExecSHR(pc, x) == SetRegisters(pc, ShiftRight(x))

\* A faulty 8xy7 that reports a borrow when the operands are equal.
SubReversedStrict(x, y) ==
  LET r == overflowing_sub(v_registers[y], v_registers[x])
  IN [[v_registers EXCEPT ![x] = r[1]] EXCEPT
        ![15] = IF v_registers[y] > v_registers[x] THEN 1 ELSE 0]

\* 8xy7: Vx is stored first, then VF
SubReversed(x, y) ==
  LET r == overflowing_sub(v_registers[y], v_registers[x])
  IN [[v_registers EXCEPT ![x] = r[1]] EXCEPT ![15] = IF r[2] THEN 0 ELSE 1]

ExecSUBN(pc, x, y) == SetRegisters(pc, SubReversed(x, y))

\* 8xyE: VF is stored first, then Vx is shifted
ShiftLeft(x) ==
  LET flagged == [v_registers EXCEPT ![15] = (v_registers[x] \div 128) % 2]
  IN [flagged EXCEPT ![x] = (flagged[x] * 2) % U8]

ExecSHL(pc, x) == SetRegisters(pc, ShiftLeft(x))

\* Annn
ExecLD_I(pc, nnn) ==
  /\ i_register' = nnn
  /\ Continue(pc)
  /\ UNCHANGED << v_registers, stk, ram, display, keys, timers >>

\* Bnnn
ExecJP_V0(pc, nnn) == Goto(nnn + v_registers[0])

\* Cxnn: rand_byte is any u8
ExecRND(pc, x, nn) ==
  \E rand_byte \in 0..(U8 - 1) :
    SetRegisters(pc, [v_registers EXCEPT ![x] = Bitwise("and", rand_byte, nn, 8)])

\* Dxyn.  Bit col of a sprite byte, most significant first.
SpriteBit(sprite, col) ==
  LET weight == << 128, 64, 32, 16, 8, 4, 2, 1 >>
  IN (sprite \div weight[col + 1]) % 2

\* A faulty index that stops at the right edge instead of wrapping.
ScreenIndexClipped(vx, vy, row, col) ==
  (IF (vx % SCREEN_WIDTH) + col >= SCREEN_WIDTH THEN SCREEN_WIDTH - 1
   ELSE (vx % SCREEN_WIDTH) + col)
    + ((vy + row) % SCREEN_HEIGHT) * SCREEN_WIDTH

ScreenIndex(vx, vy, row, col) ==
  ((vx + col) % SCREEN_WIDTH) + ((vy + row) % SCREEN_HEIGHT) * SCREEN_WIDTH

\* A faulty inner loop that sets the cells of the sprite instead of toggling
\* them.
DrawRowOr(disp, sprite, row, vx, vy) ==
  [disp EXCEPT
     ![ScreenIndex(vx, vy, row, 0)] = (@ \/ (SpriteBit(sprite, 0) = 1)),
     ![ScreenIndex(vx, vy, row, 1)] = (@ \/ (SpriteBit(sprite, 1) = 1)),
     ![ScreenIndex(vx, vy, row, 2)] = (@ \/ (SpriteBit(sprite, 2) = 1)),
     ![ScreenIndex(vx, vy, row, 3)] = (@ \/ (SpriteBit(sprite, 3) = 1)),
     ![ScreenIndex(vx, vy, row, 4)] = (@ \/ (SpriteBit(sprite, 4) = 1)),
     ![ScreenIndex(vx, vy, row, 5)] = (@ \/ (SpriteBit(sprite, 5) = 1)),
     ![ScreenIndex(vx, vy, row, 6)] = (@ \/ (SpriteBit(sprite, 6) = 1)),
     ![ScreenIndex(vx, vy, row, 7)] = (@ \/ (SpriteBit(sprite, 7) = 1))]

\* The inner loop of Dxyn, col = 0 to 7 in turn: each cell of the row is
\* XORed with its sprite bit.
DrawRow(disp, sprite, row, vx, vy) ==
  [disp EXCEPT
     ![ScreenIndex(vx, vy, row, 0)] = (@ # (SpriteBit(sprite, 0) = 1)),
     ![ScreenIndex(vx, vy, row, 1)] = (@ # (SpriteBit(sprite, 1) = 1)),
     ![ScreenIndex(vx, vy, row, 2)] = (@ # (SpriteBit(sprite, 2) = 1)),
     ![ScreenIndex(vx, vy, row, 3)] = (@ # (SpriteBit(sprite, 3) = 1)),
     ![ScreenIndex(vx, vy, row, 4)] = (@ # (SpriteBit(sprite, 4) = 1)),
     ![ScreenIndex(vx, vy, row, 5)] = (@ # (SpriteBit(sprite, 5) = 1)),
     ![ScreenIndex(vx, vy, row, 6)] = (@ # (SpriteBit(sprite, 6) = 1)),
     ![ScreenIndex(vx, vy, row, 7)] = (@ # (SpriteBit(sprite, 7) = 1))]

\* The collision test of the inner loop: prev_bit && !display[idx] for some
\* col (the 8 cells of a row are distinct, so prev_bit is the cell before
\* the row and display[idx] the cell after it).
RowCollides(before, after, row, vx, vy) ==
  \E col \in 0..7 :
    before[ScreenIndex(vx, vy, row, col)] /\ ~after[ScreenIndex(vx, vy, row, col)]

\* The outer loop of Dxyn from row on: the display and the collision flag it
\* ends with, and whether the fetch of a sprite byte outside the memory
\* stopped it.
RECURSIVE DrawFrom(_, _, _, _, _, _)
DrawFrom(disp, flag, row, n, vx, vy) ==
  IF row = n
  THEN [display |-> disp, flag |-> flag, panicked |-> FALSE]
  ELSE IF i_register + row >= RAM_SIZE
  THEN [display |-> disp, flag |-> flag, panicked |-> TRUE]
  ELSE LET drawn == DrawRow(disp, ram[i_register + row], row, vx, vy)
           collided == IF RowCollides(disp, drawn, row, vx, vy) THEN 1 ELSE flag
       IN DrawFrom(drawn, collided, row + 1, n, vx, vy)

\* A faulty Dxyn that does not reset VF before drawing.
ExecDRW_FlagKept(pc, x, y, n) ==
  LET drawn == DrawFrom(display, v_registers[15], 0, n,
                        v_registers[x], v_registers[y])
  IN /\ display' = drawn.display
     /\ v_registers' = [v_registers EXCEPT ![15] = drawn.flag]
     /\ IF drawn.panicked THEN Abort(pc, "index out of bounds") ELSE Continue(pc)
     /\ UNCHANGED << i_register, stk, ram, keys, timers >>

ExecDRW(pc, x, y, n) ==
  LET drawn == DrawFrom(display, 0, 0, n, v_registers[x], v_registers[y])
  IN /\ display' = drawn.display
     /\ v_registers' = [v_registers EXCEPT ![15] = drawn.flag]
     /\ IF drawn.panicked THEN Abort(pc, "index out of bounds") ELSE Continue(pc)
     /\ UNCHANGED << i_register, stk, ram, keys, timers >>

\* Ex9E, ExA1: keys is indexed by the byte in Vx
ExecSKP(pc, x) ==
  IF v_registers[x] < NUM_KEYS
  THEN SkipIf(pc, keys[v_registers[x]])
  ELSE /\ Abort(pc, "index out of bounds")
       /\ UNCHANGED << regs, stk, ram, display, keys, timers >>

ExecSKNP(pc, x) ==
  IF v_registers[x] < NUM_KEYS
  THEN SkipIf(pc, ~keys[v_registers[x]])
  ELSE /\ Abort(pc, "index out of bounds")
       /\ UNCHANGED << regs, stk, ram, display, keys, timers >>

\* Fx07
ExecLD_VX_DT(pc, x) ==
  SetRegisters(pc, [v_registers EXCEPT ![x] = delay_timer])

\* A faulty scan that reports the last set latch instead of the first.
RECURSIVE ScanKeysNoBreak(_)
ScanKeysNoBreak(i) ==
  IF i = NUM_KEYS THEN -1
  ELSE IF ScanKeysNoBreak(i + 1) >= 0 THEN ScanKeysNoBreak(i + 1)
  ELSE IF keys[i] THEN i
  ELSE -1

\* Fx0A: the scan of the key latches from index i on; -1 when none is set.
RECURSIVE ScanKeys(_)
ScanKeys(i) ==
  IF i = NUM_KEYS THEN -1
  ELSE IF keys[i] THEN i
  ELSE ScanKeys(i + 1)

\* A faulty Fx0A that does not rewind the program counter when no key is set.
ExecLD_VX_K_NoRewind(pc, x) ==
  IF ScanKeys(0) >= 0
  THEN SetRegisters(pc, [v_registers EXCEPT ![x] = ScanKeys(0)])
  ELSE Goto(pc)

ExecLD_VX_K(pc, x) ==
  IF ScanKeys(0) >= 0
  THEN SetRegisters(pc, [v_registers EXCEPT ![x] = ScanKeys(0)])
  ELSE Goto(pc - 2)

\* Fx15, Fx18
ExecLD_DT(pc, x) ==
  /\ delay_timer' = v_registers[x]
  /\ Continue(pc)
  /\ UNCHANGED << regs, stk, ram, display, keys, sound_timer >>

ExecLD_ST(pc, x) ==
  /\ sound_timer' = v_registers[x]
  /\ Continue(pc)
  /\ UNCHANGED << regs, stk, ram, display, keys, delay_timer >>

\* Fx1E: u16::wrapping_add
ExecADD_I(pc, x) ==
  /\ i_register' = (i_register + v_registers[x]) % U16
  /\ Continue(pc)
  /\ UNCHANGED << v_registers, stk, ram, display, keys, timers >>

\* Fx29
ExecLD_F(pc, x) ==
  /\ i_register' = v_registers[x] * 5
  /\ Continue(pc)
  /\ UNCHANGED << v_registers, stk, ram, display, keys, timers >>

\* A faulty decomposition that gives the units first.
BcdDigitsReversed(value) ==
  << value % 10, (value \div 10) % 10, value \div 100 >>

\* Fx33
BcdDigits(value) == << value \div 100, (value \div 10) % 10, value % 10 >>

ExecLD_B(pc, x) ==
  /\ ram' = WriteBytes(i_register, BcdDigits(v_registers[x]))
  /\ IF WritesFit(i_register, 3) THEN Continue(pc)
     ELSE Abort(pc, "index out of bounds")
  /\ UNCHANGED << regs, stk, display, keys, timers >>

\* Fx55
ExecLD_I_VX(pc, x) ==
  /\ ram' = WriteBytes(i_register, [idx \in 1..(x + 1) |-> v_registers[idx - 1]])
  /\ IF WritesFit(i_register, x + 1) THEN Continue(pc)
     ELSE Abort(pc, "index out of bounds")
  /\ UNCHANGED << regs, stk, display, keys, timers >>

\* Fx65: the registers whose byte lies inside the memory are loaded, the
\* first fetch outside it panics.
ExecLD_VX_I(pc, x) ==
  /\ v_registers' = [r \in 0..(NUM_REGS - 1) |->
                       IF r <= x /\ i_register + r < RAM_SIZE
                         THEN ram[i_register + r] ELSE v_registers[r]]
  /\ IF WritesFit(i_register, x + 1) THEN Continue(pc)
     ELSE Abort(pc, "index out of bounds")
  /\ UNCHANGED << i_register, stk, ram, display, keys, timers >>

\* A faulty fallthrough arm that skips the word as if it were 0000.
ExecIgnored(pc) == Goto(pc)

\* unimplemented!()
ExecUnimplemented(pc) ==
  /\ Abort(pc, "not implemented")
  /\ UNCHANGED << regs, stk, ram, display, keys, timers >>

\* CPU::execute
execute(op, pc) ==
  LET kind == Decode(op)
      x == Digit2(op)
      y == Digit3(op)
  IN CASE kind = "NOP" -> ExecNOP(pc)
       [] kind = "CLS" -> ExecCLS(pc)
       [] kind = "RET" -> ExecRET(pc)
       [] kind = "JP" -> ExecJP(pc, NNN(op))
       [] kind = "CALL" -> ExecCALL(pc, NNN(op))
       [] kind = "SE_NN" -> ExecSE_NN(pc, x, NN(op))
       [] kind = "SNE_NN" -> ExecSNE_NN(pc, x, NN(op))
       [] kind = "SE_VY" -> ExecSE_VY(pc, x, y)
       [] kind = "LD_NN" -> ExecLD_NN(pc, x, NN(op))
       [] kind = "ADD_NN" -> ExecADD_NN(pc, x, NN(op))
       [] kind = "LD_VY" -> ExecLD_VY(pc, x, y)
       [] kind = "OR" -> ExecBitwise(pc, "or", x, y)
       [] kind = "AND" -> ExecBitwise(pc, "and", x, y)
       [] kind = "XOR" -> ExecBitwise(pc, "xor", x, y)
       [] kind = "ADD_VY" -> ExecADD_VY(pc, x, y)
       [] kind = "SUB" -> ExecSUB(pc, x, y)
       [] kind = "SHR" -> ExecSHR(pc, x)
       [] kind = "SUBN" -> ExecSUBN(pc, x, y)
       [] kind = "SHL" -> ExecSHL(pc, x)
       [] kind = "SNE_VY" -> ExecSNE_VY(pc, x, y)
       [] kind = "LD_I" -> ExecLD_I(pc, NNN(op))
       [] kind = "JP_V0" -> ExecJP_V0(pc, NNN(op))
       [] kind = "RND" -> ExecRND(pc, x, NN(op))
       [] kind = "DRW" -> ExecDRW(pc, x, y, Digit4(op))
       [] kind = "SKP" -> ExecSKP(pc, x)
       [] kind = "SKNP" -> ExecSKNP(pc, x)
       [] kind = "LD_VX_DT" -> ExecLD_VX_DT(pc, x)
       [] kind = "LD_VX_K" -> ExecLD_VX_K(pc, x)
       [] kind = "LD_DT" -> ExecLD_DT(pc, x)
       [] kind = "LD_ST" -> ExecLD_ST(pc, x)
       [] kind = "ADD_I" -> ExecADD_I(pc, x)
       [] kind = "LD_F" -> ExecLD_F(pc, x)
       [] kind = "LD_B" -> ExecLD_B(pc, x)
       [] kind = "LD_I_VX" -> ExecLD_I_VX(pc, x)
       [] kind = "LD_VX_I" -> ExecLD_VX_I(pc, x)
       [] OTHER -> ExecUnimplemented(pc)

\* ------------------------------------------------------------------------
\* The entry points of CPU.  The host constructs the CPU, loads one ROM and
\* then calls tick, tick_timers and keypress in any order; a panic ends the
\* run.
\* ------------------------------------------------------------------------
Running == panic = "none" /\ called # "default"

\* CPU::load
load(data) ==
  /\ panic = "none"
  /\ called = "default"
  /\ called' = "load"
  /\ IF RamLoadFits(data)
     THEN ram' = RamLoad(data) /\ panic' = "none"
     ELSE ram' = ram /\ panic' = "range end index out of range"
  /\ UNCHANGED << program_counter, regs, stk, display, keys, timers,
                  instruction, frames >>

\* CPU::fetch reads inside the memory when both bytes are.
FetchFits == program_counter + 1 < RAM_SIZE

\* The history of the draws: what a Dxyn starts from, and frames after the
\* instruction word op.
Lit == {c \in 0..(SCREEN_WIDTH * SCREEN_HEIGHT - 1) : display[c]}

DrawRecord(op) ==
  [lit |-> Lit,
   i |-> i_register,
   n |-> Digit4(op),
   vx |-> v_registers[Digit2(op)],
   vy |-> v_registers[Digit3(op)],
   sprite |-> [row \in 0..(Digit4(op) - 1) |->
                 IF i_register + row < RAM_SIZE THEN ram[i_register + row]
                 ELSE -1]]

Framed(op) ==
  CASE Decode(op) = "DRW" ->
         IF frames = << >> THEN << DrawRecord(op) >>
         ELSE << DrawRecord(op), frames[1] >>
    [] Decode(op) = "CLS" -> << >>
    [] OTHER -> frames

\* CPU::tick
tick ==
  /\ Running
  /\ called' = "tick"
  /\ IF FetchFits
     THEN /\ instruction' = fetch_instruction(program_counter)
          /\ frames' = Framed(fetch_instruction(program_counter))
          /\ execute(fetch_instruction(program_counter), program_counter + 2)
     ELSE /\ instruction' = -1
          /\ panic' = "index out of bounds"
          /\ UNCHANGED << program_counter, regs, stk, ram, display, keys, timers,
                          frames >>

\* A faulty timer decrement without the floor at 0 (u8::wrapping_sub).
TimerTickUnguarded(timer) == (timer - 1) % U8

\* CPU::tick_timers
TimerTick(timer) == IF timer > 0 THEN timer - 1 ELSE timer

tick_timers ==
  /\ Running
  /\ called' = "tick_timers"
  /\ delay_timer' = TimerTick(delay_timer)
  /\ UNCHANGED << program_counter, regs, stk, ram, display, keys, sound_timer,
                  panic, instruction, frames >>

\* A faulty keypress that folds the index into 0..15 instead of checking it.
keypressWrapped(idx, pressed) ==
  /\ Running
  /\ called' = "keypress"
  /\ keys' = [keys EXCEPT ![idx % NUM_KEYS] = pressed]
  /\ UNCHANGED << program_counter, regs, stk, ram, display, timers,
                  panic, instruction, frames >>

\* CPU::keypress
keypress(idx, pressed) ==
  /\ Running
  /\ called' = "keypress"
  /\ IF idx < NUM_KEYS
     THEN keys' = [keys EXCEPT ![idx] = pressed] /\ panic' = "none"
     ELSE keys' = keys /\ panic' = "index out of bounds"
  /\ UNCHANGED << program_counter, regs, stk, ram, display, timers,
                  instruction, frames >>

\* The host: one ROM of roms is loaded, then the entry points are called in
\* any order, keypress with an index of keyidx.
Host(roms, keyidx) ==
  \/ called = "default" /\ \E data \in roms : load(data)
  \/ tick
  \/ tick_timers
  \/ \E idx \in keyidx, pressed \in BOOLEAN : keypress(idx, pressed)

\* ------------------------------------------------------------------------
\* ROM images: a ROM is the sequence of its bytes, two per instruction,
\* high byte first.
\* ------------------------------------------------------------------------
Op(d1, d2, d3, d4) == d1 * 4096 + d2 * 256 + d3 * 16 + d4
OpXNN(d1, x, nn) == d1 * 4096 + x * 256 + nn
OpNNN(d1, nnn) == d1 * 4096 + nnn

RECURSIVE Assemble(_)
Assemble(ops) ==
  IF ops = << >> THEN << >>
  ELSE << Head(ops) \div 256, Head(ops) % 256 >> \o Assemble(Tail(ops))

\* The address of instruction number k (from 0) of a ROM.
At(k) == START_ADDR + 2 * k

\* ------------------------------------------------------------------------
\* Timers and key wait: set both timers from V0, then wait for a key in a
\* loop.
\*   0: 60vv   1: F015   2: F018   3: Fx0A   4: 1206 (back to 3)
\* ------------------------------------------------------------------------
MaxTimer == 3
MaxKey == 2
KeyWaitRegs == {1, 15}

KeyWaitRom(value, x) ==
  Assemble(<< OpXNN(6, 0, value), Op(15, 0, 1, 5), Op(15, 0, 1, 8),
              Op(15, x, 0, 10), OpNNN(1, At(3)) >>)

KeyWaitRoms == {KeyWaitRom(value, x) : value \in 0..MaxTimer, x \in KeyWaitRegs}

Next == Host(KeyWaitRoms, 0..MaxKey)

Spec == Init /\ [][Next]_vars

\* ------------------------------------------------------------------------
\* Properties of the key wait and the timers (checked under Spec)
\* ------------------------------------------------------------------------
\* The step is a call of tick that fetches an instruction decoded as kind.
TickOn(kind) ==
  /\ Running
  /\ called' = "tick"
  /\ FetchFits
  /\ Decode(fetch_instruction(program_counter)) = kind

NoKeySet == \A k \in 0..(NUM_KEYS - 1) : ~keys[k]

\* The lowest index among the set key latches.
LowestSetKey ==
  CHOOSE k \in 0..(NUM_KEYS - 1) : keys[k] /\ \A j \in 0..(k - 1) : ~keys[j]

\* C1: a tick on Fx0A while no key latch is set leaves the program counter
\* where it was (on the Fx0A) and changes no V register, I, stack, memory,
\* timer, key latch or framebuffer cell, and raises no failure; as this holds
\* of every such tick, it holds of any number of them in a row.
C1_KeyWaitRepeats ==
  [][ (TickOn("LD_VX_K") /\ NoKeySet)
        => /\ program_counter' = program_counter
           /\ panic' = "none"
           /\ UNCHANGED << regs, stk, ram, timers, keys, display >> ]_vars

\* A tick has just found no key on the Fx0A at instruction 3, with the timers
\* set and running.
C1_Witness ==
  /\ called = "tick"
  /\ panic = "none"
  /\ instruction >= 0
  /\ Decode(instruction) = "LD_VX_K"
  /\ NoKeySet
  /\ program_counter = At(3)
  /\ fetch_instruction(program_counter) = instruction
  /\ sound_timer > 0

\* C2: a tick on Fx0A while at least one key latch is set ends the wait at
\* once: Vx becomes the lowest index among the set latches and the program
\* counter moves 2 past the Fx0A.
C2_KeyWaitEnds ==
  [][ (TickOn("LD_VX_K") /\ ~NoKeySet)
        => /\ v_registers'[Digit2(fetch_instruction(program_counter))]
                = LowestSetKey
           /\ program_counter' = program_counter + 2
           /\ panic' = "none" ]_vars

\* The Fx0A at instruction 3 has just taken key 1 while keys 1 and 2, but
\* not key 0, were set.
C2_Witness ==
  /\ called = "tick"
  /\ panic = "none"
  /\ instruction >= 0
  /\ Decode(instruction) = "LD_VX_K"
  /\ program_counter = At(4)
  /\ ~keys[0] /\ keys[1] /\ keys[2]
  /\ v_registers[Digit2(instruction)] = 1

\* What the specification asks of one timer in tick_timers.
Decremented(timer) == IF timer > 0 THEN timer - 1 ELSE 0

\* C7: every call of tick_timers decrements the delay timer and the sound
\* timer alike, each by 1 when above 0 and not at all at 0.
C7_TimersAlike ==
  [][ (Running /\ called' = "tick_timers")
        => /\ delay_timer' = Decremented(delay_timer)
           /\ sound_timer' = Decremented(sound_timer) ]_vars

\* C8: a call of tick_timers leaves a timer that is 0 at 0 and never raises
\* a timer.
C8_TimersFloor ==
  [][ (Running /\ called' = "tick_timers")
        => /\ delay_timer = 0 => delay_timer' = 0
           /\ sound_timer = 0 => sound_timer' = 0
           /\ delay_timer' <= delay_timer
           /\ sound_timer' <= sound_timer ]_vars

\* tick_timers has just been called in a run whose ROM sets both timers to 0:
\* the timers were 0 at the call.
C8_Witness ==
  /\ called = "tick_timers"
  /\ panic = "none"
  /\ instruction >= 0
  /\ Decode(instruction) = "LD_VX_K"
  /\ ram[At(0) + 1] = 0
  /\ delay_timer = 0
  /\ sound_timer = 0

\* ------------------------------------------------------------------------
\* Calls and returns.
\*   ChainRom(n): n subroutines, each calling the next, the last returning
\*     0: 2(At 2)  1: 1(At 1)   2k: 2(At 2k+2)  2k+1: 00EE   2n: 00EE
\*   TreeRom: main calls A twice, A calls B twice
\*     0: 2(At 3)  1: 2(At 3)  2: 1(At 2)  3: 2(At 6)  4: 2(At 6)  5: 00EE
\*     6: 00EE
\*   ReturnRom: a call, its return, and one return more
\*     0: 2(At 2)  1: 00EE  2: 00EE
\*   RecursionRom: a subroutine that calls itself for ever
\*     0: 2(At 0)
\*   with MaxNest > STACK_SIZE the deepest chain overflows the stack.
\* ------------------------------------------------------------------------
MaxNest == 17

RET == Op(0, 0, 14, 14)

ChainRom(n) ==
  Assemble([i \in 1..(2 * n + 1) |->
              IF i = 2 THEN OpNNN(1, At(1))
              ELSE IF i = 2 * n + 1 THEN RET
              ELSE IF i % 2 = 1 THEN OpNNN(2, At(i + 1))
              ELSE RET])

TreeRom ==
  Assemble(<< OpNNN(2, At(3)), OpNNN(2, At(3)), OpNNN(1, At(2)),
              OpNNN(2, At(6)), OpNNN(2, At(6)), RET, RET >>)

ReturnRom == Assemble(<< OpNNN(2, At(2)), RET, RET >>)

RecursionRom == Assemble(<< OpNNN(2, At(0)) >>)

StackRoms ==
  {ChainRom(n) : n \in 1..MaxNest} \cup {TreeRom, ReturnRom, RecursionRom}

NextStack == Host(StackRoms, {0})

SpecStack == Init /\ [][NextStack]_vars

\* The stack slots below depth d are the same after the step.
SlotsKept(d) == \A k \in 0..(d - 1) : stack'[k] = stack[k]

\* C3: a 2nnn fetched at p with depth d < 16 saves p + 2 in slot d and makes
\* the depth d + 1; a 00EE at depth d + 1 loads the program counter from slot
\* d and makes the depth d; and no step changes a slot below the depth it
\* starts or ends with.  So the 00EE that matches a call, after any balanced
\* sequence of calls and returns, finds p + 2 in slot d: it sets the program
\* counter to p + 2 and the depth to d, last in first out.
C3_CallReturn ==
  [][ /\ (TickOn("CALL") /\ stack_point < STACK_SIZE)
          => /\ stack'[stack_point] = program_counter + 2
             /\ stack_point' = stack_point + 1
             /\ SlotsKept(stack_point)
             /\ program_counter' = NNN(fetch_instruction(program_counter))
             /\ panic' = "none"
      /\ (TickOn("RET") /\ stack_point \in 1..STACK_SIZE)
          => /\ program_counter' = stack[stack_point - 1]
             /\ stack_point' = stack_point - 1
             /\ SlotsKept(stack_point - 1)
             /\ panic' = "none"
      /\ ~(TickOn("CALL") \/ TickOn("RET"))
          => /\ stack_point' = stack_point
             /\ SlotsKept(stack_point) ]_vars

\* The innermost call of a 16-deep chain, made at depth 15 from instruction
\* 30, has just returned: the program counter is on instruction 31 and the
\* depth is 15 again.
C3_Witness ==
  /\ called = "tick"
  /\ panic = "none"
  /\ instruction = RET
  /\ fetch_instruction(At(32)) = RET
  /\ fetch_instruction(At(30)) = OpNNN(2, At(32))
  /\ program_counter = At(31)
  /\ stack_point = 15
  /\ stack[15] = At(31)

\* C4: the stack depth is within 0..16 in every state, and a 2nnn at depth 16
\* fails without storing a return address, changing a slot or the depth.
C4_DepthBounded ==
  /\ [](stack_point \in 0..STACK_SIZE)
  /\ [][ (TickOn("CALL") /\ stack_point = STACK_SIZE)
           => (panic' # "none" /\ UNCHANGED stk) ]_vars

\* C5: a 00EE at depth 0 fails: the stack pointer stays within 0..16 and the
\* program counter is not loaded from the stack (it stays 2 past the 00EE).
C5_UnderflowFails ==
  [][ (TickOn("RET") /\ stack_point = 0)
        => /\ panic' # "none"
           /\ stack_point' \in 0..STACK_SIZE
           /\ program_counter' = program_counter + 2 ]_vars

\* ------------------------------------------------------------------------
\* A run without key events or timer ticks: one ROM of roms is loaded and
\* then only tick is called.
\* ------------------------------------------------------------------------
Run(roms) ==
  \/ called = "default" /\ \E data \in roms : load(data)
  \/ tick

\* ------------------------------------------------------------------------
\* Instruction words outside the opcode table.
\*   0: A123 (I <- 0x123)   1: 6F07 (VF <- 7)   2: the word
\* The words tried have a first nibble of a family with holes (0, 5, 8, 9,
\* E, F), any third and fourth nibble, and a second nibble of DecodeX.
\* ------------------------------------------------------------------------
MaxDecodeX == 0
DecodeX == 0..MaxDecodeX \cup {15}

\* The words the opcode table has no row for.
Unrecognized(op) ==
  LET d1 == Digit1(op)
      d4 == Digit4(op)
      nn == op % 256
  IN \/ d1 = 0 /\ op \notin {0, 224, 238}
     \/ d1 \in {5, 9} /\ d4 # 0
     \/ d1 = 8 /\ d4 \in (8..13) \cup {15}
     \/ d1 = 14 /\ nn \notin {158, 161}
     \/ d1 = 15 /\ nn \notin {7, 10, 21, 24, 30, 41, 51, 85, 101}

DecodeWords ==
  {op \in {Op(d1, d2, d3, d4) : d1 \in {0, 5, 8, 9, 14, 15}, d2 \in DecodeX,
                                d3 \in 0..15, d4 \in 0..15} : Unrecognized(op)}

DecodeRom(op) == Assemble(<< OpNNN(10, 291), OpXNN(6, 15, 7), op >>)

DecodeRoms == {DecodeRom(op) : op \in DecodeWords}

NextDecode == Run(DecodeRoms)

SpecDecode == Init /\ [][NextDecode]_vars

\* C6: a tick on a word outside the opcode table fails as unimplemented, and
\* changes no V register, I, stack, memory, timer, key latch or framebuffer
\* cell: it is executed as no instruction at all.
C6_UnrecognizedFails ==
  [][ (Running /\ called' = "tick" /\ FetchFits
         /\ Unrecognized(fetch_instruction(program_counter)))
        => /\ panic' = "not implemented"
           /\ UNCHANGED << regs, stk, ram, timers, keys, display >> ]_vars

\* 5F01, one past the skip 5F00, has just been refused with I and VF set.
C6_Witness ==
  /\ called = "tick"
  /\ instruction = Op(5, 15, 0, 1)
  /\ panic = "not implemented"
  /\ i_register = 291
  /\ v_registers[15] = 7

\* ------------------------------------------------------------------------
\* Arithmetic between two registers.
\*   0: 6xaa   1: 6ybb   2: 8xyN   3: 1(At 3)
\* for x, y of AluRegs, aa, bb of AluBytes and N of AluOps.
\* ------------------------------------------------------------------------
MaxAluReg == 1
MaxAluByte == 1
AluRegs == 0..MaxAluReg \cup {15}
AluBytes == 0..MaxAluByte \cup {127, 128} \cup (255 - MaxAluByte)..255
AluOps == {4, 5, 7}

AluRom(x, y, a, b, n) ==
  Assemble(<< OpXNN(6, x, a), OpXNN(6, y, b), Op(8, x, y, n), OpNNN(1, At(3)) >>)

AluRoms ==
  {AluRom(x, y, a, b, n) : x \in AluRegs, y \in AluRegs,
                           a \in AluBytes, b \in AluBytes, n \in AluOps}

NextAlu == Run(AluRoms)

SpecAlu == Init /\ [][NextAlu]_vars

\* The operands of the instruction about to be fetched.
OpX == Digit2(fetch_instruction(program_counter))
OpY == Digit3(fetch_instruction(program_counter))

\* C9: 8xy4 with Vx = a and Vy = b leaves VF = 1 if a + b > 255 and VF = 0
\* otherwise, and, unless x is F, Vx = (a + b) mod 256.
C9_AddCarry ==
  [][ TickOn("ADD_VY")
        => LET a == v_registers[OpX]
               b == v_registers[OpY]
           IN /\ v_registers'[15] = IF a + b > 255 THEN 1 ELSE 0
              /\ OpX # 15 => v_registers'[OpX] = (a + b) % 256
              /\ panic' = "none" ]_vars

\* 8F14 has just added VF = 255 and V1 >= 1: VF holds the carry, not the sum.
C9_Witness ==
  /\ called = "tick"
  /\ instruction = Op(8, 15, 1, 4)
  /\ fetch_instruction(At(0)) = OpXNN(6, 15, 255)
  /\ v_registers[1] >= 1
  /\ v_registers[15] = 1

\* C10: 8xy5 with Vx = a and Vy = b leaves VF = 1 iff a >= b and, unless x is
\* F, Vx = (a - b) mod 256; 8xy7 leaves VF = 1 iff b >= a and, unless x is F,
\* Vx = (b - a) mod 256.  With a = b the flag is 1.
C10_SubBorrow ==
  [][ /\ TickOn("SUB")
          => LET a == v_registers[OpX]
                 b == v_registers[OpY]
             IN /\ v_registers'[15] = IF a >= b THEN 1 ELSE 0
                /\ OpX # 15 => v_registers'[OpX] = (a - b) % 256
                /\ panic' = "none"
      /\ TickOn("SUBN")
          => LET a == v_registers[OpX]
                 b == v_registers[OpY]
             IN /\ v_registers'[15] = IF b >= a THEN 1 ELSE 0
                /\ OpX # 15 => v_registers'[OpX] = (b - a) % 256
                /\ panic' = "none" ]_vars

\* 8017 has just subtracted V0 = 128 from V1 = 128: the difference is 0 and
\* the flag is 1.
C10_Witness ==
  /\ called = "tick"
  /\ instruction = Op(8, 0, 1, 7)
  /\ fetch_instruction(At(0)) = OpXNN(6, 0, 128)
  /\ v_registers[1] = 128
  /\ v_registers[0] = 0
  /\ v_registers[15] = 1

\* ------------------------------------------------------------------------
\* Shifts.
\*   0: 6xvv   1: 8x06 or 8x0E   2: 1(At 2)
\* for x of ShiftRegs and vv of ShiftBytes.
\* ------------------------------------------------------------------------
MaxShiftReg == 1
MaxShiftByte == 2
ShiftRegs == 0..MaxShiftReg \cup {15}
ShiftBytes == 0..MaxShiftByte \cup {127, 128} \cup (255 - MaxShiftByte)..255
ShiftOps == {6, 14}

ShiftRom(x, v, n) ==
  Assemble(<< OpXNN(6, x, v), Op(8, x, 0, n), OpNNN(1, At(2)) >>)

ShiftRoms ==
  {ShiftRom(x, v, n) : x \in ShiftRegs, v \in ShiftBytes, n \in ShiftOps}

NextShift == Run(ShiftRoms)

SpecShift == Init /\ [][NextShift]_vars

\* C11: 8xy6 with Vx = v leaves VF = v mod 2, and 8xyE leaves VF = v div 128,
\* for every x, x = F included.
C11_ShiftFlag ==
  [][ /\ TickOn("SHR") => v_registers'[15] = v_registers[OpX] % 2
      /\ TickOn("SHL") => v_registers'[15] = v_registers[OpX] \div 128 ]_vars

\* ------------------------------------------------------------------------
\* Drawing: a sprite is drawn, drawn again some columns to the right, and
\* then once more in the same place.
\*   0: Annn   1: 6x(vx)   2: 6y(vy)   3: Dxyn   4: 7x(dx)   5: Dxyn
\*   6: Dxyn   7: 1(At 7)
\* The sprite is a font glyph (I = 0), the last glyph and the zeroes after it
\* (I = 75), the ROM itself (I = At(0)) or the last bytes of the memory
\* (I = 4091, where 15 rows do not fit).  The coordinates lie at the start
\* and near the end of both axes and beyond them.
\* ------------------------------------------------------------------------
MaxNudge == 1
DrawRegs == {<< 0, 1 >>, << 15, 1 >>, << 2, 2 >>}
DrawXs == {0, 60, 255}
DrawYs == {0, 29, 255}
DrawHeights == {0, 5, 15}
DrawSprites == {0, 75, At(0), 4091}

DrawRom(i, x, y, vx, vy, n, dx) ==
  Assemble(<< OpNNN(10, i), OpXNN(6, x, vx), OpXNN(6, y, vy), Op(13, x, y, n),
              OpXNN(7, x, dx), Op(13, x, y, n), Op(13, x, y, n),
              OpNNN(1, At(7)) >>)

DrawRoms ==
  {DrawRom(i, xy[1], xy[2], vx, vy, n, dx) :
     i \in DrawSprites, xy \in DrawRegs, vx \in DrawXs, vy \in DrawYs,
     n \in DrawHeights, dx \in 0..MaxNudge}

NextDraw == Run(DrawRoms)

SpecDraw == Init /\ [][NextDraw]_vars

\* The height of the Dxyn about to be fetched, and whether its sprite lies
\* inside the memory.
OpN == Digit4(fetch_instruction(program_counter))
SpriteInMemory == i_register + OpN <= RAM_SIZE

\* The cell at column cx and row cy of the framebuffer.
Cell(cx, cy) == cy * 64 + cx

\* Bit 7 - col of the sprite row at I + row.
SpriteBitSet(row, col) ==
  LET weight == << 1, 2, 4, 8, 16, 32, 64, 128 >>
  IN (ram[i_register + row] \div weight[(7 - col) + 1]) % 2 = 1

\* The cells the Dxyn about to be fetched has to toggle.
Toggled ==
  {Cell((v_registers[OpX] + rc[2]) % 64, (v_registers[OpY] + rc[1]) % 32) :
     rc \in {p \in (0..(OpN - 1)) \X (0..7) : SpriteBitSet(p[1], p[2])}}

\* The cells that are set after the step.
LitNext == {c \in 0..2047 : display'[c]}

\* The last tick executed a Dxyn to its end.
Drew ==
  /\ called = "tick"
  /\ panic = "none"
  /\ instruction >= 0
  /\ Decode(instruction) = "DRW"
  /\ frames # << >>

\* C12: a Dxyn whose sprite lies in the memory toggles exactly the cells at
\* column (Vx + col) mod 64 and row (Vy + row) mod 32 whose sprite bit is 1,
\* leaves every other cell as it was, and reaches no cell outside 0..2047.
C12_DrawToggles ==
  [][ (TickOn("DRW") /\ SpriteInMemory)
        => /\ panic' = "none"
           /\ DOMAIN display' = 0..2047
           /\ Toggled \subseteq 0..2047
           /\ LitNext = (Lit \ Toggled) \cup (Toggled \ Lit)
    ]_vars

\* The glyph "0" has just been drawn from (255, 255) on a blank framebuffer:
\* its first row lies on row 31 in columns 63, 0, 1, 2 and its second row on
\* row 0 in columns 63 and 2.
C12_Witness ==
  /\ Drew
  /\ Len(frames) = 1
  /\ frames[1].i = 0 /\ frames[1].n = 5
  /\ frames[1].vx = 255 /\ frames[1].vy = 255
  /\ Lit = {Cell(63, 31), Cell(0, 31), Cell(1, 31), Cell(2, 31),
            Cell(63, 0), Cell(2, 0), Cell(63, 1), Cell(2, 1),
            Cell(63, 2), Cell(2, 2),
            Cell(63, 3), Cell(0, 3), Cell(1, 3), Cell(2, 3)}

\* C13: after a Dxyn whose sprite lies in the memory, VF is 1 if some cell
\* that was set before the draw is unset after it and 0 otherwise, whatever
\* VF held before.
C13_CollisionFlag ==
  [][ (TickOn("DRW") /\ SpriteInMemory)
        => v_registers'[15] = IF Lit \ LitNext # {} THEN 1 ELSE 0
    ]_vars

\* DF15 has just drawn a glyph on a blank framebuffer with VF = 255 before
\* the draw: VF is 0.
C13_Witness ==
  /\ Drew
  /\ Digit2(instruction) = 15
  /\ frames[1].vx = 255
  /\ frames[1].lit = {}
  /\ Lit # {}
  /\ v_registers[15] = 0

\* Two draws ask for the same thing.
SameDraw(f, g) ==
  /\ f.i = g.i
  /\ f.n = g.n
  /\ f.vx = g.vx
  /\ f.vy = g.vy
  /\ f.sprite = g.sprite

\* The last tick made the second of two draws of the same sprite at the same
\* place, with no 00E0 between them.
DrewTwice == Drew /\ Len(frames) = 2 /\ SameDraw(frames[1], frames[2])

\* The sprite of a draw has a set bit.
HasSetBit(f) == \E row \in 0..(f.n - 1) : f.sprite[row] > 0

\* C14: the second of two Dxyn with the same I, sprite bytes, Vx and Vy
\* leaves the framebuffer as it was before the first; from a blank
\* framebuffer the first reports VF = 0, and the second leaves it blank again
\* and reports VF = 1 iff the sprite has a set bit.
C14_DrawTwice ==
  /\ DrewTwice => Lit = frames[2].lit
  /\ (Drew /\ frames[1].lit = {}) => v_registers[15] = 0
  /\ (DrewTwice /\ frames[2].lit = {})
       => /\ Lit = {}
          /\ v_registers[15] = IF HasSetBit(frames[1]) THEN 1 ELSE 0

\* A sprite has just been drawn a second time over a framebuffer that held
\* the same sprite one column to the left: both are on the screen again, and
\* the second draw collided with the first.
C14_Witness ==
  /\ DrewTwice
  /\ frames[2].lit # {}
  /\ Lit = frames[2].lit
  /\ frames[1].lit # frames[2].lit
  /\ v_registers[15] = 1

\* ------------------------------------------------------------------------
\* ROM sizes.  A ROM image of a size of LoadSizes: the jump 1200 to itself
\* and then bytes other than 0 that differ with their place; the sizes are
\* the smallest, the largest that fit and the first that do not.
\* ------------------------------------------------------------------------
MaxOversize == 2
LoadRoom == RAM_SIZE - START_ADDR
LoadSizes == {0, 1, 2, LoadRoom - 1, LoadRoom} \cup
             (LoadRoom + 1)..(LoadRoom + MaxOversize)
LoadSeeds == {3, 7}

Image(size, seed) ==
  [k \in 1..size |-> IF k = 1 THEN 18
                     ELSE IF k = 2 THEN 0
                     ELSE ((k * seed) % 255) + 1]

LoadRoms == {Image(size, seed) : size \in LoadSizes, seed \in LoadSeeds}

NextLoad == Run(LoadRoms)

SpecLoad == Init /\ [][NextLoad]_vars

\* C15: load of more than 3584 bytes fails and copies nothing: the memory is
\* as it was before the call.
C15_OversizedRejected ==
  [][ \A data \in LoadRoms :
        (Len(data) > 3584 /\ load(data))
          => (panic' # "none" /\ ram' = ram) ]_vars

\* A load has just been refused, and the memory is as constructed.
C15_Witness ==
  /\ called = "load"
  /\ panic = "range end index out of range"
  /\ ram = RamDefault

\* C16: load of at most 3584 bytes puts the bytes in order at 0x200 and on,
\* leaves every other memory cell, the 80 font bytes among them, as it was,
\* and changes no register, stack, timer, key latch or framebuffer cell.
C16_LoadFrame ==
  [][ \A data \in LoadRoms :
        (Len(data) <= 3584 /\ load(data))
          => /\ panic' = "none"
             /\ DOMAIN ram' = 0..4095
             /\ \A a \in 0..4095 :
                  ram'[a] = IF a >= 512 /\ a < 512 + Len(data)
                              THEN data[a - 512 + 1] ELSE ram[a]
             /\ \A a \in 0..79 : ram'[a] = FONTSET[a + 1]
             /\ UNCHANGED << program_counter, regs, stk, timers, keys, display >>
    ]_vars

\* A ROM of 3584 bytes has just been loaded: its last byte is at 4095, the
\* cell before 0x200 and the font are as constructed.
C16_Witness ==
  /\ called = "load"
  /\ panic = "none"
  /\ ram[4095] # 0
  /\ ram[512] = 18
  /\ ram[511] = 0
  /\ ram[0] = 240 /\ ram[79] = 128

\* ------------------------------------------------------------------------
\* Key events: the key wait of KeyWaitRom with key indices inside and
\* outside 0..15.
\* ------------------------------------------------------------------------
MaxBadKey == 2
KeyIdx == {0, 15} \cup 16..(15 + MaxBadKey)
KeyRoms == {KeyWaitRom(1, 1)}

NextKeys == Host(KeyRoms, KeyIdx)

SpecKeys == Init /\ [][NextKeys]_vars

\* C17: keypress(idx, pressed) with idx in 0..15 sets latch idx to pressed
\* and changes no other latch and nothing else; with idx >= 16 it fails and
\* changes no latch and nothing else.
C17_KeypressChecked ==
  [][ \A idx \in KeyIdx, pressed \in BOOLEAN :
        keypress(idx, pressed)
          => /\ IF idx <= 15
                THEN /\ panic' = "none"
                     /\ \A k \in 0..15 :
                          keys'[k] = IF k = idx THEN pressed ELSE keys[k]
                ELSE /\ panic' # "none"
                     /\ keys' = keys
             /\ UNCHANGED << program_counter, regs, stk, ram, timers, display >>
    ]_vars

\* A keypress with an index outside 0..15 has just failed while latch 15 was
\* set and latch 0 was not: they are as they were.
C17_Witness ==
  /\ called = "keypress"
  /\ panic = "index out of bounds"
  /\ keys[15]
  /\ ~keys[0]

\* ------------------------------------------------------------------------
\* Decimal digits.
\*   0: 6xvv   1: Annn   2: Fx33   3: 1(At 3)
\* with I in the font, on the Fx33 itself, and on the last cells of the
\* memory, where 4094 and 4095 leave no room for three digits.
\* ------------------------------------------------------------------------
MaxBcdByte == 1
BcdRegs == {0, 15}
BcdBytes == 0..MaxBcdByte \cup {9, 10, 99, 100, 101, 199, 200, 249, 250, 255}
BcdAddrs == {0, At(2), 4093, 4094, 4095}

BcdRom(x, v, i) ==
  Assemble(<< OpXNN(6, x, v), OpNNN(10, i), Op(15, x, 3, 3), OpNNN(1, At(3)) >>)

BcdRoms == {BcdRom(x, v, i) : x \in BcdRegs, v \in BcdBytes, i \in BcdAddrs}

NextBcd == Run(BcdRoms)

SpecBcd == Init /\ [][NextBcd]_vars

\* C18: Fx33 with Vx = v and I + 2 <= 4095 stores v div 100 at I,
\* (v div 10) mod 10 at I + 1 and v mod 10 at I + 2, three digits of 0..9
\* that make up v, and changes no other memory cell, no V register and not I.
C18_BcdDigits ==
  [][ (TickOn("LD_B") /\ i_register + 2 <= 4095)
        => LET v == v_registers[OpX]
               i == i_register
           IN /\ ram' = [ram EXCEPT ![i] = v \div 100,
                                    ![i + 1] = (v \div 10) % 10,
                                    ![i + 2] = v % 10]
              /\ \A k \in 0..2 : ram'[i + k] \in 0..9
              /\ 100 * ram'[i] + 10 * ram'[i + 1] + ram'[i + 2] = v
              /\ UNCHANGED regs
              /\ panic' = "none" ]_vars

\* Fx33 has just stored 255 in the last three cells of the memory.
C18_Witness ==
  /\ called = "tick"
  /\ panic = "none"
  /\ instruction >= 0
  /\ Decode(instruction) = "LD_B"
  /\ v_registers[Digit2(instruction)] = 255
  /\ i_register = 4093
  /\ ram[4093] = 2 /\ ram[4094] = 5 /\ ram[4095] = 5

\* ------------------------------------------------------------------------
\* Load and add a constant.
\*   0: 6xnn   1: 7xmm   2: 1(At 2)
\* ------------------------------------------------------------------------
MaxAddByte == 1
AddRegs == {0, 15}
AddBytes == 0..MaxAddByte \cup {3, 18, 128} \cup (255 - MaxAddByte)..255

AddRom(x, nn, mm) ==
  Assemble(<< OpXNN(6, x, nn), OpXNN(7, x, mm), OpNNN(1, At(2)) >>)

AddRoms == {AddRom(x, nn, mm) : x \in AddRegs, nn \in AddBytes, mm \in AddBytes}

NextAdd == Run(AddRoms)

SpecAdd == Init /\ [][NextAdd]_vars

\* C19: in a program 6xnn, 7xmm at 0x200 the tick on 6xnn and the tick on
\* 7xmm each advance the program counter by 2, 7xmm adds mm to Vx modulo 256
\* and changes no other register (so no flag), and after the two ticks
\* Vx = (nn + mm) mod 256 with the program counter at 0x204.
C19_LoadThenAdd ==
  /\ [][ /\ TickOn("LD_NN")
             => /\ program_counter' = program_counter + 2
                /\ v_registers'[OpX] = fetch_instruction(program_counter) % 256
         /\ TickOn("ADD_NN")
             => /\ program_counter' = program_counter + 2
                /\ panic' = "none"
                /\ \A r \in 0..15 :
                     v_registers'[r]
                       = IF r = OpX
                         THEN (v_registers[r]
                                 + (fetch_instruction(program_counter) % 256)) % 256
                         ELSE v_registers[r] ]_vars
  /\ [](( /\ called = "tick"
          /\ instruction >= 0
          /\ Decode(instruction) = "ADD_NN" )
          => /\ program_counter = 516
             /\ panic = "none"
             /\ v_registers[Digit2(instruction)] = (ram[513] + ram[515]) % 256)

\* 6012, 7003 have just been executed: V0 = 0x15 and the program counter is
\* 0x204.
C19_Witness ==
  /\ called = "tick"
  /\ instruction = OpXNN(7, 0, 3)
  /\ fetch_instruction(512) = OpXNN(6, 0, 18)
  /\ v_registers[0] = 21
  /\ program_counter = 516

\* ------------------------------------------------------------------------
\* The end of the memory.
\*   TailRom(nnn):   0: 1nnn, a jump to one of the last addresses, from
\*                   where the zeroes of the memory are executed as 0000
\*   OffsetRom(v):   0: 60vv   1: BFFF
\*   EndRom(op):     0: 1FFE   1: 00EE   ...   the last cells of the memory: op
\*                   with op a skip that is taken, or a call of the 00EE
\* ------------------------------------------------------------------------
MaxTail == 4
TailTargets == {RAM_SIZE - 1} \cup {RAM_SIZE - 2 * k : k \in 1..MaxTail}
FetchOffsets == {0, 1, 255}
EndOps == {OpXNN(3, 0, 0), OpNNN(2, At(1))}

TailRom(nnn) == Assemble(<< OpNNN(1, nnn) >>)

OffsetRom(v) == Assemble(<< OpXNN(6, 0, v), OpNNN(11, 4095) >>)

EndRom(op) ==
  [k \in 1..LoadRoom |->
     CASE k = 1 -> 31
       [] k = 2 -> 254
       [] k = 3 -> 0
       [] k = 4 -> 238
       [] k = LoadRoom - 1 -> op \div 256
       [] k = LoadRoom -> op % 256
       [] OTHER -> 0]

FetchRoms ==
  {TailRom(nnn) : nnn \in TailTargets} \cup {OffsetRom(v) : v \in FetchOffsets}
    \cup {EndRom(op) : op \in EndOps}

NextFetch == Host(FetchRoms, {0})

SpecFetch == Init /\ [][NextFetch]_vars

\* C20: in every state reached by a load and any calls of tick, tick_timers
\* and keypress after it, the next tick fetches inside the memory: the
\* program counter is at most 4094.
C20_FetchInside == Running => program_counter + 1 <= 4095

\* ------------------------------------------------------------------------
\* Addresses through I near the end of the memory.
\*   0: 61vv   1: Annn   2: F11E   3: the instruction   4: 1(At 4)
\* with nnn among the last addresses, vv of IndexOffsets and the instruction
\* one of F133, F155, F165 and D002.
\* ------------------------------------------------------------------------
MaxIndexGap == 3
IndexAddrs == (RAM_SIZE - 1 - MaxIndexGap)..(RAM_SIZE - 1)
IndexOffsets == {0, 1, 255}
IndexOps == {Op(15, 1, 3, 3), Op(15, 1, 5, 5), Op(15, 1, 6, 5), Op(13, 0, 0, 2)}

IndexRom(nnn, v, op) ==
  Assemble(<< OpXNN(6, 1, v), OpNNN(10, nnn), Op(15, 1, 1, 14), op,
              OpNNN(1, At(4)) >>)

IndexRoms ==
  {IndexRom(nnn, v, op) : nnn \in IndexAddrs, v \in IndexOffsets, op \in IndexOps}

NextIndex == Run(IndexRoms)

SpecIndex == Init /\ [][NextIndex]_vars

\* The number of memory cells from I on that the instruction word op uses.
CellsUsed(op) ==
  CASE Decode(op) = "DRW" -> Digit4(op)
    [] Decode(op) = "LD_B" -> 3
    [] Decode(op) \in {"LD_I_VX", "LD_VX_I"} -> Digit2(op) + 1
    [] OTHER -> 0

\* C21: in every state I is within 0..4095, and the cells the next tick uses
\* through I (I + row for Dxyn, I..I + 2 for Fx33, I..I + x for Fx55 and
\* Fx65) are within 0..4095.
C21_AddressInside ==
  /\ i_register \in 0..4095
  /\ (Running /\ FetchFits)
       => i_register + CellsUsed(fetch_instruction(program_counter)) - 1 <= 4095

\* ------------------------------------------------------------------------
\* Skips on a key.
\*   0: 6xvv   1: Ex9E or ExA1   2: 1(At 2)   3: 1(At 3)
\* with vv inside and outside 0..15, and key events on latches 0 and 15.
\* ------------------------------------------------------------------------
MaxSkipByte == 1
SkipRegs == {0, 15}
SkipBytes == 0..MaxSkipByte \cup {15, 16, 255}
SkipOps == {158, 161}
SkipKeys == {0, 15}

SkipRom(x, v, nn) ==
  Assemble(<< OpXNN(6, x, v), OpXNN(14, x, nn), OpNNN(1, At(2)),
              OpNNN(1, At(3)) >>)

SkipRoms == {SkipRom(x, v, nn) : x \in SkipRegs, v \in SkipBytes, nn \in SkipOps}

NextSkip == Host(SkipRoms, SkipKeys)

SpecSkip == Init /\ [][NextSkip]_vars

\* C22: Ex9E and ExA1 end as a skip decision for every byte in Vx: no
\* failure, the program counter 2 or 4 past the instruction, and, the latch
\* index being within 0..15, 4 past iff the key is pressed (Ex9E) or not
\* pressed (ExA1).
C22_SkipDecides ==
  [][ /\ TickOn("SKP")
          => /\ panic' = "none"
             /\ program_counter' \in {program_counter + 2, program_counter + 4}
             /\ v_registers[OpX] <= 15
                  => program_counter'
                       = program_counter + (IF keys[v_registers[OpX]] THEN 4 ELSE 2)
      /\ TickOn("SKNP")
          => /\ panic' = "none"
             /\ program_counter' \in {program_counter + 2, program_counter + 4}
             /\ v_registers[OpX] <= 15
                  => program_counter'
                       = program_counter + (IF keys[v_registers[OpX]] THEN 2 ELSE 4)
    ]_vars

====
